---- MODULE Spec2Model ----
(***************************************************************************)
(* The ETH balance reconciliation engine of chain-monitor                  *)
(* (internal/logic/cross_chain/messenger_cross_chain.go) over the          *)
(* message_match store (internal/orm).                                     *)
(*                                                                         *)
(* The store is a table of NumRecords rows, ids 1..NumRecords.  Each row   *)
(* carries its token type, per layer the event facts written by ingestion  *)
(* (event type, block number), the shared ETH amount string with its       *)
(* status, and the two derived columns the engine writes: the messenger    *)
(* balance and the balance status.                                         *)
(*                                                                         *)
(* CheckETHBalance is a sequence of calls on the node and on the store;    *)
(* every such call is a step of its own, and the goroutines of ingestion   *)
(* and of the other layer's loop run between them.                         *)
(***************************************************************************)
EXTENDS Integers, Sequences, FiniteSets, TLC

\* ------------------------------------------------------------------ bounds
NumRecords == 3
MaxBlock == 2
MaxBalance == 3
\* messageLimit is 1000 in the source; the model scales it below NumRecords
\* so that a batch can be cut by the limit.
messageLimit == 2
\* the block numbers the L2Watcher is given are 0..MaxNumber
MaxNumber == 10
\* the message nonces ingestion writes are 0..MaxNonce
MaxNonce == 1
\* the records ingestion delivers again are 1..MaxUpserted
MaxUpserted == 1
\* the number of upserts ingestion makes while the engine is watched
MaxIngested == 1

\* --------------------------------------------------------- program constants
ethBalanceGap == 50
\* the configured L1 seed (constructor parameter startMessengerBalance)
startMessengerBalance == 1
\* types.ETHBalanceStatusTypeInvalid / Valid: "Unchecked" and "Valid"
ETHBalanceStatusTypeInvalid == 1
ETHBalanceStatusTypeValid == 2

Layer1 == "Layer1"
Layer2 == "Layer2"
Layers == {Layer1, Layer2}
OtherLayer(layer) == IF layer = Layer1 THEN Layer2 ELSE Layer1

EventTypeUnset == "Unset"
SentMessage(layer) == IF layer = Layer1 THEN "L1SentMessage" ELSE "L2SentMessage"
RelayedMessage(layer) == IF layer = Layer1 THEN "L1RelayedMessage" ELSE "L2RelayedMessage"

ETHAmountStatusTypeUnset == "AmountUnset"
ETHAmountStatusTypeSet == "AmountSet"

\* types.TokenTypeETH, and the token type of a gateway (ERC20) message
TokenTypeETH == "TokenTypeETH"
TokenTypeERC20 == "TokenTypeERC20"

Ids == 1..NumRecords
Blocks == 0..MaxBlock
Balances == 0..MaxBalance
\* chain heads offered by the node: at the window, and around the gap
LatestBlocks == {MaxBlock, ethBalanceGap + 1, ethBalanceGap + MaxBlock + 1}

VARIABLES
    tokenType,            \* [Ids -> token type]               token_type
    eventType,            \* [Layers -> [Ids -> event type]]   l1_event_type, l2_event_type
    blockNumber,          \* [Layers -> [Ids -> Nat]]          l1_block_number, l2_block_number
    ethAmount,            \* [Ids -> amount string]            eth_amount
    ethAmountStatus,      \* [Ids -> status]                   eth_amount_status
    messengerETHBalance,  \* [Layers -> [Ids -> Int]]          l1/l2_messenger_eth_balance
    ethBalanceStatus,     \* [Layers -> [Ids -> Int]]          l1/l2_eth_balance_status
    messageNonce,         \* [Ids -> Nat]                      message_nonce (with message_proof)
    ingested,             \* the number of upserts ingestion has made
    loop,                 \* the layer whose reconciliation loop runs, or Both
    call,                 \* [Layers -> the locals of that loop's call of CheckETHBalance]
    tx,                   \* [Layers -> the commit transaction of that loop's call]
    bisect,               \* [Layers -> the locals of checkBlockBalanceOneByOne]
    l2watcher,            \* the L2Watcher's startNumber and safeNumber fields
    lastStored,           \* the numbers last handed to setStartNumber / setSafeNumber
    reader                \* a call of IsReady in progress, between its two loads

facts == <<tokenType, eventType, blockNumber, ethAmount, ethAmountStatus, messageNonce>>
derived == <<messengerETHBalance, ethBalanceStatus>>
store == <<tokenType, eventType, blockNumber, ethAmount, ethAmountStatus, messageNonce,
           messengerETHBalance, ethBalanceStatus>>
engine == <<loop, call, tx, bisect>>
watcher == <<l2watcher, lastStored, reader>>
vars == <<tokenType, eventType, blockNumber, ethAmount, ethAmountStatus,
          messengerETHBalance, ethBalanceStatus, messageNonce, ingested, loop, call, tx,
          bisect, l2watcher, lastStored, reader>>

\* ------------------------------------------------------------ amount strings
\* An amount is a string, here a sequence of characters.
DigitValue(c) ==
    CASE c = "0" -> 0 [] c = "1" -> 1 [] c = "2" -> 2 [] c = "3" -> 3
      [] c = "4" -> 4 [] c = "5" -> 5 [] c = "6" -> 6 [] c = "7" -> 7
      [] c = "8" -> 8 [] c = "9" -> 9 [] OTHER -> -1

RECURSIVE DigitsValue(_, _)
DigitsValue(s, acc) ==
    IF s = <<>> THEN acc ELSE DigitsValue(Tail(s), 10 * acc + DigitValue(Head(s)))

\* a decoder that accepts every string
SetStringLenient(s) == [ok |-> TRUE, val |-> 0]

\* new(big.Int).SetString(s, 10): an optional sign, then one or more decimal
\* digits; anything else fails.
SetString(s) ==
    LET signed == s # <<>> /\ Head(s) \in {"+", "-"}
        digits == IF signed THEN Tail(s) ELSE s
        ok == digits # <<>> /\ \A i \in 1..Len(digits) : DigitValue(digits[i]) >= 0
    IN  IF ~ok THEN [ok |-> FALSE, val |-> 0]
        ELSE [ok |-> TRUE,
              val |-> IF signed /\ Head(s) = "-" THEN 0 - DigitsValue(digits, 0)
                      ELSE DigitsValue(digits, 0)]

\* the amounts ingestion wrote: record id carries GoodAmounts[id]
GoodAmounts == << <<"1">>, <<"2">>, <<"4">>, <<"8">>, <<"1", "6">> >>
BadAmount == <<"1", "x">>

\* ------------------------------------------------------------------- store
BlockOf(layer, id) == blockNumber[layer][id]

\* the struct a query of the layer's loop gets for a row: the columns of the
\* row as they are when the query runs.  Of the two layers' event columns the
\* engine reads those of its layer only.
MessageMatch(layer, id) ==
    [ID |-> id,
     EventType |-> eventType[layer][id],
     BlockNumber |-> blockNumber[layer][id],
     ETHAmount |-> ethAmount[id],
     ETHAmountStatus |-> ethAmountStatus[id],
     MessengerETHBalance |-> messengerETHBalance[layer][id],
     ETHBalanceStatus |-> ethBalanceStatus[layer][id]]

\* db.Find(&messages): the structs of the rows, in the order of the query
Find(layer, ids) == [i \in 1..Len(ids) |-> MessageMatch(layer, ids[i])]

\* ORDER BY id asc over a set of rows
RECURSIVE OrderById(_)
OrderById(S) ==
    IF S = {} THEN <<>>
    ELSE LET m == CHOOSE x \in S : \A y \in S : x <= y
         IN  <<m>> \o OrderById(S \ {m})

\* ORDER BY <layer>_block_number asc (rows of one block by id)
RECURSIVE OrderByBlock(_, _)
OrderByBlock(layer, S) ==
    IF S = {} THEN <<>>
    ELSE LET m == CHOOSE x \in S : \A y \in S :
                     \/ BlockOf(layer, x) < BlockOf(layer, y)
                     \/ BlockOf(layer, x) = BlockOf(layer, y) /\ x <= y
         IN  <<m>> \o OrderByBlock(layer, S \ {m})

\* a fetch that ignores its limit
TakeAll(s, n) == s

Take(s, n) == IF Len(s) <= n THEN s ELSE SubSeq(s, 1, n)

\* the same query without the status filter: the first `limit` ETH rows by id
GetLatestETHMessageMatch(layer, limit) ==
    Find(layer, Take(OrderById({id \in Ids : tokenType[id] = TokenTypeETH}), limit))

\* GetUncheckedLatestETHMessageMatch: the first `limit` rows, by id, whose
\* balance status of the layer is Invalid and whose token type is ETH.  (The
\* token_type condition is written without its placeholder; a database that
\* rejects it makes the call return its error, which is the failing call of
\* FetchBatch.)
GetUncheckedLatestETHMessageMatch(layer, limit) ==
    Find(layer,
         Take(OrderById({id \in Ids :
                            /\ ethBalanceStatus[layer][id] = ETHBalanceStatusTypeInvalid
                            /\ tokenType[id] = TokenTypeETH}),
              limit))

\* a query that finds no Valid row
NoValidETHBalanceMessageMatch(layer) == 0

\* GetLatestValidETHBalanceMessageMatch: the last row (by primary key) whose
\* balance status of the layer is Valid; 0 when there is none.
GetLatestValidETHBalanceMessageMatch(layer) ==
    LET valid == {id \in Ids : ethBalanceStatus[layer][id] = ETHBalanceStatusTypeValid}
    IN  IF valid = {} THEN 0 ELSE CHOOSE x \in valid : \A y \in valid : y <= x

\* GetETHCheckStartBlockNumberAndBalance: the balance of that row, or nil.
GetETHCheckStartBlockNumberAndBalance(layer) ==
    LET last == GetLatestValidETHBalanceMessageMatch(layer)
    IN  IF last = 0 THEN [nil |-> TRUE, val |-> 0]
        ELSE [nil |-> FALSE, val |-> messengerETHBalance[layer][last]]

\* GetETHMessageMatchByBlockRange: every row of the layer whose block number
\* lies in [start, end], in block order.
GetETHMessageMatchByBlockRange(layer, start, end) ==
    Find(layer,
         OrderByBlock(layer,
                      {id \in Ids : start <= BlockOf(layer, id) /\ BlockOf(layer, id) <= end}))

\* UpdateETHBalance: the values the row update writes into the layer's
\* balance column and balance-status column.  Both come from the update's
\* balance field.
UpdateETHBalance(layer, mm) ==
    [balance |-> mm.balance, status |-> mm.balance]

\* ---------------------------------------------------------- checkBalance
\* the signed delta of one record: SentMessage adds, RelayedMessage subtracts,
\* any other event type leaves the difference alone
SignedDelta(layer, message, amount) ==
    IF message.EventType = SentMessage(layer) THEN amount
    ELSE IF message.EventType = RelayedMessage(layer) THEN 0 - amount
    ELSE 0

\* the loop of checkBalance: stops at the first amount that does not decode
RECURSIVE BalanceDiff(_, _, _)
BalanceDiff(layer, messages, balanceDiff) ==
    IF messages = <<>> THEN [err |-> FALSE, diff |-> balanceDiff]
    ELSE LET amount == SetString(Head(messages).ETHAmount)
         IN  IF ~amount.ok THEN [err |-> TRUE, diff |-> 0]
             ELSE BalanceDiff(layer, Tail(messages),
                              balanceDiff + SignedDelta(layer, Head(messages), amount.val))

\* checkBalance returns (ok, expectedEndBalance, actualBalance, err); on a
\* decode failure both balances are nil.
checkBalance(layer, startBalance, endBalance, messages) ==
    LET d == BalanceDiff(layer, messages, 0)
        expectedEndBalance == startBalance + d.diff
    IN  IF d.err
        THEN [ok |-> FALSE, err |-> TRUE, nil |-> TRUE,
              expectedEndBalance |-> 0, actualBalance |-> 0]
        ELSE [ok |-> expectedEndBalance = endBalance, err |-> FALSE, nil |-> FALSE,
              expectedEndBalance |-> expectedEndBalance, actualBalance |-> endBalance]

\* --------------------------------------------------- computeBlockBalance
\* first loop: blockNumberAmountMap, the net delta of every block of the
\* window; stops at the first amount that does not decode
RECURSIVE BlockNumberAmountMap(_, _, _)
BlockNumberAmountMap(layer, messages, map) ==
    IF messages = <<>> THEN [err |-> FALSE, map |-> map]
    ELSE LET message == Head(messages)
             b == message.BlockNumber
             amount == SetString(message.ETHAmount)
             old == IF b \in DOMAIN map THEN map[b] ELSE 0
         IN  IF ~amount.ok THEN [err |-> TRUE, map |-> map]
             ELSE BlockNumberAmountMap(layer, Tail(messages),
                      [x \in DOMAIN map \cup {b} |->
                          IF x = b THEN old + SignedDelta(layer, message, amount.val)
                          ELSE map[x]])

\* second loop: the running balance advances when the block number differs
\* from lastBlockNumber, which starts at 0; every record gets an update with
\* the running balance and the status Valid
RECURSIVE RunningBalances(_, _, _, _, _)
RunningBalances(layer, messages, map, lastBlockBalance, lastBlockNumber) ==
    IF messages = <<>> THEN <<>>
    ELSE LET v == Head(messages)
             b == v.BlockNumber
             balance == IF b # lastBlockNumber THEN lastBlockBalance + map[b]
                        ELSE lastBlockBalance
         IN  <<[id |-> v.ID, balance |-> balance, status |-> ETHBalanceStatusTypeValid]>>
             \o RunningBalances(layer, Tail(messages), map, balance,
                                IF b # lastBlockNumber THEN b ELSE lastBlockNumber)

\* sort.Slice(updateETHMessageMatches, by ID)
RECURSIVE InsertByID(_, _)
InsertByID(u, sorted) ==
    IF sorted = <<>> THEN <<u>>
    ELSE IF u.id < Head(sorted).id THEN <<u>> \o sorted
    ELSE <<Head(sorted)>> \o InsertByID(u, Tail(sorted))

RECURSIVE InsertionSortByID(_)
InsertionSortByID(updates) ==
    IF updates = <<>> THEN <<>>
    ELSE InsertByID(Head(updates), InsertionSortByID(Tail(updates)))

UnsortedUpdates(updates) == updates

\* a sort of the update set by the balance it carries instead of the id
RECURSIVE SortByBalance(_)
SortByBalance(updates) ==
    IF updates = <<>> THEN <<>>
    ELSE LET k == CHOOSE i \in 1..Len(updates) : \A j \in 1..Len(updates) :
                      \/ updates[i].balance < updates[j].balance
                      \/ updates[i].balance = updates[j].balance /\ i <= j
         IN  <<updates[k]>>
             \o SortByBalance(SubSeq(updates, 1, k - 1) \o SubSeq(updates, k + 1, Len(updates)))

SortByID(updates) == InsertionSortByID(updates)

\* the update set computeBlockBalance hands to its transaction, in the order
\* the row updates are issued; empty (and err) when an amount does not decode
computeBlockBalance(layer, messages, messengerETHBalanceStart) ==
    LET m == BlockNumberAmountMap(layer, messages, <<>>)
    IN  IF m.err THEN [err |-> TRUE, updates |-> <<>>]
        ELSE [err |-> FALSE,
              updates |-> SortByID(RunningBalances(layer, messages, m.map,
                                                   messengerETHBalanceStart, 0))]

UpdateIds(updates) == [i \in 1..Len(updates) |-> updates[i].id]

IdsOf(messages) == {messages[i].ID : i \in 1..Len(messages)}

\* ------------------------------------------------------ window selection
\* the block of the first record of the span whose amount status is not Set;
\* 0 when every amount is set
RECURSIVE TruncateBlockNumber(_, _)
TruncateBlockNumber(layer, messageMatches) ==
    IF messageMatches = <<>> THEN 0
    ELSE IF Head(messageMatches).ETHAmountStatus # ETHAmountStatusTypeSet
         THEN Head(messageMatches).BlockNumber
         ELSE TruncateBlockNumber(layer, Tail(messageMatches))

\* the records kept: all of them when truncateBlockNumber is 0, else those of
\* the blocks below it
TruncatedMessageMatches(layer, messageMatches, truncateBlockNumber) ==
    SelectSeq(messageMatches,
              LAMBDA message : truncateBlockNumber = 0
                               \/ message.BlockNumber < truncateBlockNumber)

\* the stale-block test with the boundary block included
IsStaleInclusive(layer, endBlockNumber, latestBlockNumber) ==
    layer = Layer1 /\ endBlockNumber + ethBalanceGap <= latestBlockNumber

\* the stale-block test of checkETH
IsStale(layer, endBlockNumber, latestBlockNumber) ==
    layer = Layer1 /\ endBlockNumber + ethBalanceGap < latestBlockNumber

\* ------------------------------------------------------------ the Oracle
\* Every BalanceAt call is answered by the node with a balance or an error
\* (written as the answer -1, which is no balance).  The balance of a block
\* does not change: a call remembers the balance the node gave for a block,
\* and a later BalanceAt for that block gets that balance or an error.
Failed == -1
Answers == Balances \cup {Failed}

NothingAnswered == [block \in Blocks |-> Failed]

\* -------------------------------------------- the locals of CheckETHBalance
\* pc is the call the loop's goroutine makes next (idle between two calls of
\* CheckETHBalance), path how the call of CheckETHBalance went once it has
\* returned, reported that the call before it ended Reported; batch lists
\* the ids GetUncheckedLatestETHMessageMatch returned,
\* messages is the window (truncatedMessageMatches), calls lists the blocks
\* BalanceAt was asked for, in order, answered what it gave, and issued the
\* ids of the rows whose update has been written.
NewCall ==
    [pc |-> "idle", path |-> "none", latestBlockNumber |-> 0, startBalance |-> 0,
     batch |-> <<>>, startBlockNumber |-> 0, endBlockNumber |-> 0, messages |-> <<>>,
     calls |-> <<>>, answered |-> NothingAnswered, issued |-> <<>>, reported |-> FALSE]

\* the last call of CheckETHBalance by the layer's loop has returned this way
Returned(layer, paths) == call[layer].pc = "idle" /\ call[layer].path \in paths

\* CheckETHBalance returns
Return(f, path) == [f EXCEPT !.pc = "idle", !.path = path]

\* the node answers BalanceAt for the block: an error, or a balance, which
\* is the one the call was given for that block before, if it was given one
BalanceAt(f, block, answer) ==
    \/ answer = Failed
    \/ answer >= 0 /\ f.answered[block] \in {Failed, answer}

\* the locals once the node has answered BalanceAt for the block
Asked(f, block, answer) ==
    [f EXCEPT !.calls = Append(@, block),
              !.answered[block] = IF answer = Failed THEN @ ELSE answer]

CommitPaths == {"Committed", "StaleCommitted"}
FailedCalls == {"LatestFailed", "StartFailed", "SeedFailed", "BatchFailed",
                "RangeFailed", "EndBalanceFailed"}

\* no transaction open
Idle == [active |-> FALSE, updates |-> <<>>, pos |-> 0]

\* c.db.Transaction(func(tx) ...) is entered with the sorted update set
BeginTransaction(updates) ==
    [active |-> TRUE, updates |-> updates, pos |-> 0]

\* no bisector run in progress
NotBisecting ==
    [pc |-> "idle", messages |-> <<>>, idx |-> 0, nil |-> TRUE, startBalance |-> 0,
     startIndex |-> 0, checks |-> <<>>, alerts |-> <<>>, queried |-> <<>>]

\* the goroutine of the layer's loop is running (a panic ends it)
Runs(layer) == loop \in {layer, "Both"} /\ bisect[layer].pc # "panic"

\* ------------------------------------------------- CheckETHBalance, by call
\* lines 58-65: CheckETHBalance is entered and asks the node for its latest
\* block number
getLatestBlockNumber(layer, answer) ==
    /\ Runs(layer)
    /\ call[layer].pc = "idle"
    /\ call' = [call EXCEPT ![layer] =
                    IF answer = Failed THEN Return(NewCall, "LatestFailed")
                    ELSE [NewCall EXCEPT !.pc = "start", !.path = "running",
                                         !.latestBlockNumber = answer,
                                         !.reported = Returned(layer, {"Reported"})]]
    /\ bisect' = [bisect EXCEPT ![layer] = NotBisecting]
    /\ UNCHANGED <<store, ingested, loop, tx, watcher>>

\* lines 67-86 without line 75: the start balance is read from the store;
\* with none stored, Layer1 takes the configured start balance and Layer2
\* goes on to ask the node
StartBalance(layer, fails) ==
    /\ Runs(layer)
    /\ call[layer].pc = "start"
    /\ LET f == call[layer]
           stored == GetETHCheckStartBlockNumberAndBalance(layer)
       IN  call' = [call EXCEPT ![layer] =
                       IF fails THEN Return(f, "StartFailed")
                       ELSE IF ~stored.nil
                       THEN [f EXCEPT !.pc = "batch", !.startBalance = stored.val]
                       ELSE IF layer = Layer2 THEN [f EXCEPT !.pc = "seed"]
                       ELSE [f EXCEPT !.pc = "batch",
                                      !.startBalance = startMessengerBalance]]
    /\ UNCHANGED <<store, ingested, loop, tx, bisect, watcher>>

\* lines 75-79: the Layer2 messenger's balance at block 0
BalanceAtGenesis(layer, answer) ==
    /\ Runs(layer)
    /\ call[layer].pc = "seed"
    /\ BalanceAt(call[layer], 0, answer)
    /\ LET f == Asked(call[layer], 0, answer)
       IN  call' = [call EXCEPT ![layer] =
                       IF answer = Failed THEN Return(f, "SeedFailed")
                       ELSE [f EXCEPT !.pc = "batch", !.startBalance = answer]]
    /\ UNCHANGED <<store, ingested, loop, tx, bisect, watcher>>

\* lines 88-106: the batch of unchecked records and its block span
FetchBatch(layer, fails) ==
    /\ Runs(layer)
    /\ call[layer].pc = "batch"
    /\ LET f == call[layer]
           messages == GetUncheckedLatestETHMessageMatch(layer, messageLimit)
       IN  call' = [call EXCEPT ![layer] =
                       IF fails THEN Return(f, "BatchFailed")
                       ELSE IF Len(messages) = 0 THEN Return(f, "NoUnchecked")
                       ELSE [f EXCEPT !.pc = "range",
                                      !.batch = [i \in 1..Len(messages) |-> messages[i].ID],
                                      !.startBlockNumber = messages[1].BlockNumber,
                                      !.endBlockNumber = messages[Len(messages)].BlockNumber]]
    /\ UNCHANGED <<store, ingested, loop, tx, bisect, watcher>>

\* lines 108-154: every record of the span, truncated at the first record
\* whose amount is not set, and the block span of what is left
FetchRange(layer, fails) ==
    /\ Runs(layer)
    /\ call[layer].pc = "range"
    /\ LET f == call[layer]
           messageMatches ==
               GetETHMessageMatchByBlockRange(layer, f.startBlockNumber, f.endBlockNumber)
           truncatedMessageMatches ==
               TruncatedMessageMatches(layer, messageMatches,
                                       TruncateBlockNumber(layer, messageMatches))
           n == Len(truncatedMessageMatches)
       IN  call' = [call EXCEPT ![layer] =
                       IF fails THEN Return(f, "RangeFailed")
                       ELSE IF n = 0 THEN Return(f, "NothingToCheck")
                       ELSE [f EXCEPT !.pc = "checkETH",
                                      !.messages = truncatedMessageMatches,
                                      !.startBlockNumber = truncatedMessageMatches[1].BlockNumber,
                                      !.endBlockNumber = truncatedMessageMatches[n].BlockNumber]]
    /\ UNCHANGED <<store, ingested, loop, tx, bisect, watcher>>

\* computeBlockBalance up to the point where its transaction is entered
\* (lines 297-375), from the locals f
DeriveAndCommit(layer, f) ==
    LET c == computeBlockBalance(layer, f.messages, f.startBalance)
    IN  IF c.err
        THEN /\ call' = [call EXCEPT ![layer] = Return(f, "DeriveFailed")]
             /\ UNCHANGED tx
        ELSE /\ call' = [call EXCEPT ![layer] = [f EXCEPT !.pc = "transaction"]]
             /\ tx' = [tx EXCEPT ![layer] = BeginTransaction(c.updates)]

\* a checkETH that derives and commits whatever the Oracle answers
checkETHUnguarded(layer, answer) ==
    /\ Runs(layer)
    /\ call[layer].pc = "checkETH"
    /\ BalanceAt(call[layer], call[layer].endBlockNumber, answer)
    /\ DeriveAndCommit(layer, Asked(call[layer], call[layer].endBlockNumber, answer))
    /\ UNCHANGED <<store, ingested, loop, bisect, watcher>>

\* checkETH (lines 160-199) with the entry of the function it ends in: the
\* stale-block bypass, or BalanceAt at the end block and checkBalance, then
\* checkBlockBalanceOneByOne or computeBlockBalance
checkETH(layer, answer) ==
    /\ Runs(layer)
    /\ call[layer].pc = "checkETH"
    /\ LET f == call[layer]
       IN  IF IsStale(layer, f.endBlockNumber, f.latestBlockNumber)
           THEN /\ DeriveAndCommit(layer, f)
                /\ UNCHANGED bisect
           ELSE /\ BalanceAt(f, f.endBlockNumber, answer)
                /\ LET g == Asked(f, f.endBlockNumber, answer)
                       chk == checkBalance(layer, f.startBalance, answer, f.messages)
                   IN  IF answer = Failed
                       THEN /\ call' = [call EXCEPT ![layer] = Return(g, "EndBalanceFailed")]
                            /\ UNCHANGED <<tx, bisect>>
                       ELSE IF chk.err
                       THEN /\ call' = [call EXCEPT ![layer] = Return(g, "DecodeFailed")]
                            /\ UNCHANGED <<tx, bisect>>
                       ELSE IF ~chk.ok
                       THEN /\ call' = [call EXCEPT ![layer] = [g EXCEPT !.pc = "bisect"]]
                            /\ bisect' = [bisect EXCEPT ![layer] =
                                             [NotBisecting EXCEPT !.pc = "anchor",
                                                                  !.messages = f.messages]]
                            /\ UNCHANGED tx
                       ELSE /\ DeriveAndCommit(layer, g)
                            /\ UNCHANGED bisect
    /\ UNCHANGED <<store, ingested, loop, watcher>>

\* ------------------------------------------- checkBlockBalanceOneByOne
\* The fallback bisector, one loop iteration per step.  Indices are those of
\* the source (from 0): messages[i] of the source is messages[i + 1] here.

\* the bisector's locals once the node has given the answer for messages[i];
\* queried lists the calls of the second loop with their answers
Queried(b, i, answer) ==
    IF b.pc = "scan" THEN [b EXCEPT !.queried = Append(@, [i |-> i, answer |-> answer])]
    ELSE b

\* the record at index i is the last one of the window, or the next record
\* is in another block: the test of lines 233-239 lets the iteration go on
EveryRecordEndsBlock(layer, messages, i) == TRUE

EndsBlock(layer, messages, i) ==
    \/ i + 1 = Len(messages)
    \/ messages[i + 1].BlockNumber # messages[i + 2].BlockNumber

\* the next iteration of a loop `for ...; i < len(messages); i++`, or its end
Continue(b, i) ==
    IF i < Len(b.messages) THEN [b EXCEPT !.idx = i]
    ELSE [b EXCEPT !.pc = "done", !.idx = i]

\* the second loop starts at startIndex + 1
StartScan(b) == Continue([b EXCEPT !.pc = "scan"], b.startIndex + 1)

\* one iteration of the first loop (lines 204-223): the balance at the block
\* of messages[idx] is asked for; an error goes on to the next record, an
\* answer becomes startBalance with startIndex = idx and ends the loop
AnchorIteration(b, answer) ==
    IF answer = Failed
    THEN IF b.idx + 1 < Len(b.messages) THEN [b EXCEPT !.idx = b.idx + 1]
         ELSE StartScan(b)
    ELSE StartScan([b EXCEPT !.nil = FALSE, !.startBalance = answer, !.startIndex = b.idx])

\* one iteration of the second loop (lines 225-252) that reaches BalanceAt.
\* checkBalance runs over messages[startIndex : i+1]; with startBalance nil
\* its big.Int addition dereferences a nil pointer and the goroutine panics.
ScanIteration(layer, b, answer) ==
    LET i == b.idx
        chk == checkBalance(layer, b.startBalance, answer,
                            SubSeq(b.messages, b.startIndex + 1, i + 1))
        bad == ~chk.ok \/ chk.err
        check == [i |-> i, startIndex |-> b.startIndex, startBalance |-> b.startBalance,
                  expectedEndBalance |-> chk.expectedEndBalance,
                  actualBalance |-> chk.actualBalance, ok |-> ~bad]
        alert == [id |-> b.messages[i + 1].ID, expectedEndBalance |-> chk.expectedEndBalance,
                  actualBalance |-> chk.actualBalance]
    IN  IF answer = Failed THEN Continue(b, i + 1)
        ELSE IF b.nil THEN [b EXCEPT !.pc = "panic"]
        ELSE Continue([b EXCEPT !.checks = Append(@, check),
                                !.alerts = IF bad THEN Append(@, alert) ELSE @], i + 1)

\* the bisector's locals b after an iteration, with those of CheckETHBalance:
\* when the second loop has ended, checkETH and CheckETHBalance return
Bisected(layer, f, b) ==
    /\ bisect' = [bisect EXCEPT ![layer] = b]
    /\ call' = [call EXCEPT ![layer] = IF b.pc = "done" THEN Return(f, "Reported") ELSE f]

\* an iteration of the first loop
AnchorLoop(layer, answer) ==
    /\ Runs(layer)
    /\ bisect[layer].pc = "anchor"
    /\ LET b == bisect[layer]
           block == b.messages[b.idx + 1].BlockNumber
       IN  /\ BalanceAt(call[layer], block, answer)
           /\ Bisected(layer, Asked(call[layer], block, answer), AnchorIteration(b, answer))
    /\ UNCHANGED <<store, ingested, loop, tx, watcher>>

\* an iteration of the second loop
ScanLoop(layer, answer) ==
    /\ Runs(layer)
    /\ bisect[layer].pc = "scan"
    /\ LET b == bisect[layer]
           block == b.messages[b.idx + 1].BlockNumber
       IN  IF EndsBlock(layer, b.messages, b.idx)
           THEN /\ BalanceAt(call[layer], block, answer)
                /\ Bisected(layer, Asked(call[layer], block, answer),
                            ScanIteration(layer, Queried(b, b.idx, answer), answer))
           ELSE Bisected(layer, call[layer], Continue(b, b.idx + 1))
    /\ UNCHANGED <<store, ingested, loop, tx, watcher>>

\* the run of checkBlockBalanceOneByOne that checkETH entered
checkBlockBalanceOneByOne(layer, answer) ==
    \/ AnchorLoop(layer, answer)
    \/ ScanLoop(layer, answer)

\* ------------------------------------------------------ the transaction
\* c.db.Transaction (lines 375-383) runs its closure: one UpdateETHBalance per
\* update, in the order of the update set, each handed the transaction tx.
\* The method called there, UpdateETHBalance(ctx, layer, mm, tx) of
\* orm.MessengerMessageMatch, is not part of the source at hand; the
\* UpdateETHBalance of MessageMatch that is takes no transaction and gives
\* the column map only.  That the row updates run on tx is taken from the
\* specification (4.4: one atomic transaction, a failing row update aborts
\* all of it; 7: a failing commit discards the window's updates).  A row update
\* takes the lock of its row, and the transaction keeps every lock it has
\* taken until it ends.  What the row updates wrote is in the store when the
\* closure has returned nil and the transaction commits; when a row update
\* or the commit returns an error the transaction rolls back: nothing of it
\* is in the store.  pos counts the row updates the closure has made.

\* the rows whose lock the layer's transaction holds
Locked(layer) == {tx[layer].updates[k].id : k \in 1..tx[layer].pos}

\* the closure has a row update left to issue
Pending(layer) == tx[layer].active /\ tx[layer].pos < Len(tx[layer].updates)

NextRow(layer) == tx[layer].updates[tx[layer].pos + 1].id

\* the next row update of the layer waits for a lock the transaction of the
\* other layer holds
Waiting(layer) ==
    /\ Pending(layer)
    /\ NextRow(layer) \in Locked(OtherLayer(layer))

\* a commit that writes the first update's balance into every row of the layer
ApplyToEveryRow(layer, updates, cols) ==
    IF updates = <<>> THEN cols
    ELSE [balance |-> [id \in Ids |-> updates[1].balance],
          status |-> [id \in Ids |-> updates[1].balance]]

\* the columns of a layer after the row updates of `updates`
RECURSIVE ApplyUpdates(_, _, _)
ApplyUpdates(layer, updates, cols) ==
    IF updates = <<>> THEN cols
    ELSE LET mm == Head(updates)
             w == UpdateETHBalance(layer, mm)
         IN  ApplyUpdates(layer, Tail(updates),
                 [balance |-> [cols.balance EXCEPT ![mm.id] = w.balance],
                  status |-> [cols.status EXCEPT ![mm.id] = w.status]])

Unchanged(layer) ==
    [balance |-> messengerETHBalance[layer], status |-> ethBalanceStatus[layer]]

\* line 377: the next row update of the closure; it takes the row's lock, for
\* which it waits while the other layer's transaction holds it, and writes
\* the row inside the transaction
UpdateRow(layer) ==
    /\ Runs(layer)
    /\ Pending(layer)
    /\ ~Waiting(layer)
    /\ tx' = [tx EXCEPT ![layer].pos = @ + 1]
    /\ call' = [call EXCEPT ![layer].issued = Append(@, NextRow(layer))]
    /\ UNCHANGED <<store, ingested, loop, bisect, watcher>>

\* lines 377-380 and 384-386: a row update returns an error (the store's, or
\* the one that ends a lock wait); the closure returns it, the transaction
\* rolls back and releases its locks, the error is logged and
\* CheckETHBalance returns
FailRow(layer) ==
    /\ Runs(layer)
    /\ Pending(layer)
    /\ tx' = [tx EXCEPT ![layer] = Idle]
    /\ call' = [call EXCEPT ![layer] = Return(@, "UpdateFailed")]
    /\ UNCHANGED <<store, ingested, loop, bisect, watcher>>

\* lines 375 and 384-386: the closure returned nil and the commit itself
\* returns an error; nothing of the transaction is in the store, its locks
\* are released, the error is logged and CheckETHBalance returns
FailCommit(layer) ==
    /\ Runs(layer)
    /\ tx[layer].active
    /\ tx[layer].pos = Len(tx[layer].updates)
    /\ tx' = [tx EXCEPT ![layer] = Idle]
    /\ call' = [call EXCEPT ![layer] = Return(@, "CommitFailed")]
    /\ UNCHANGED <<store, ingested, loop, bisect, watcher>>

\* lines 382-383: the closure returned nil; the transaction commits what its
\* row updates wrote and releases its locks, CheckETHBalance returns
CommitTransaction(layer) ==
    /\ Runs(layer)
    /\ tx[layer].active
    /\ tx[layer].pos = Len(tx[layer].updates)
    /\ LET cols == ApplyUpdates(layer, tx[layer].updates, Unchanged(layer))
       IN  /\ messengerETHBalance' = [messengerETHBalance EXCEPT ![layer] = cols.balance]
           /\ ethBalanceStatus' = [ethBalanceStatus EXCEPT ![layer] = cols.status]
    /\ tx' = [tx EXCEPT ![layer] = Idle]
    /\ call' = [call EXCEPT ![layer] =
                    Return(@, IF IsStale(layer, @.endBlockNumber, @.latestBlockNumber)
                              THEN "StaleCommitted" ELSE "Committed")]
    /\ UNCHANGED <<facts, ingested, loop, bisect, watcher>>

\* ----------------------------------------------------------------- ingestion
\* The three ingestion upserts are INSERT ... ON CONFLICT (message_hash) DO
\* UPDATE SET <columns>.  On a record that exists the conflict branch runs:
\* each listed column takes the value of the incoming struct, every other
\* column keeps its value.  Of the listed columns the store of the model has
\* the token type, the event types, the block numbers and the message nonce;
\* tx hashes, token ids, token amounts and the message proof are columns the
\* engine never reads.
Row(id) ==
    [token_type |-> tokenType[id],
     l1_event_type |-> eventType[Layer1][id],
     l1_block_number |-> blockNumber[Layer1][id],
     l2_event_type |-> eventType[Layer2][id],
     l2_block_number |-> blockNumber[Layer2][id],
     message_nonce |-> messageNonce[id],
     l1_messenger_eth_balance |-> messengerETHBalance[Layer1][id],
     l1_eth_balance_status |-> ethBalanceStatus[Layer1][id],
     l2_messenger_eth_balance |-> messengerETHBalance[Layer2][id],
     l2_eth_balance_status |-> ethBalanceStatus[Layer2][id]]

\* a MessageMatch struct with every field at its zero value
ZeroMessage ==
    [token_type |-> "TokenTypeUnknown",
     l1_event_type |-> EventTypeUnset, l1_block_number |-> 0,
     l2_event_type |-> EventTypeUnset, l2_block_number |-> 0,
     message_nonce |-> 0,
     l1_messenger_eth_balance |-> 0, l1_eth_balance_status |-> 0,
     l2_messenger_eth_balance |-> 0, l2_eth_balance_status |-> 0]

EventTypeColumn(layer) == IF layer = Layer1 THEN "l1_event_type" ELSE "l2_event_type"
BlockNumberColumn(layer) == IF layer = Layer1 THEN "l1_block_number" ELSE "l2_block_number"

\* an event type of a gateway contract
GatewayEvent(layer) == IF layer = Layer1 THEN "L1DepositERC20" ELSE "L2WithdrawERC20"

\* the token types a gateway event comes with
TokenTypes == {TokenTypeETH, TokenTypeERC20}

\* clause.OnConflict{DoUpdates: clause.AssignmentColumns(columns)} on a row
\* that exists
OnConflict(row, message, columns) ==
    [c \in DOMAIN row |-> IF c \in columns THEN message[c] ELSE row[c]]

\* InsertOrUpdateETHEventInfo: the columns chosen from the event types of
\* the incoming struct
ETHEventInfoColumns(message) ==
    (IF message.l1_event_type = SentMessage(Layer1)
     THEN {"l1_event_type", "l1_block_number", "l1_tx_hash", "l1_token_ids",
           "l1_amounts", "l2_amounts"} ELSE {})
    \cup (IF message.l1_event_type = RelayedMessage(Layer1)
          THEN {"l1_event_type", "l1_block_number", "l1_tx_hash", "l1_token_ids"} ELSE {})
    \cup (IF message.l2_event_type = SentMessage(Layer2)
          THEN {"l2_event_type", "l2_block_number", "l2_tx_hash", "l2_token_ids",
                "l1_amounts", "l2_amounts"} ELSE {})
    \cup (IF message.l2_event_type = RelayedMessage(Layer2)
          THEN {"l2_event_type", "l2_block_number", "l2_tx_hash", "l2_token_ids"} ELSE {})

\* InsertOrUpdateGatewayEventInfo: the columns chosen from the layer
GatewayEventInfoColumns(layer) ==
    IF layer = Layer1 THEN {"token_type", "l1_event_type", "l1_token_ids", "l1_amounts"}
    ELSE {"token_type", "l2_event_type", "l2_token_ids", "l2_amounts"}

\* InsertOrUpdateMsgProofNonce
MsgProofNonceColumns == {"message_proof", "message_nonce"}

\* the row written back to the table
WriteRow(id, row) ==
    /\ tokenType' = [tokenType EXCEPT ![id] = row.token_type]
    /\ eventType' = [eventType EXCEPT ![Layer1][id] = row.l1_event_type,
                                       ![Layer2][id] = row.l2_event_type]
    /\ blockNumber' = [blockNumber EXCEPT ![Layer1][id] = row.l1_block_number,
                                           ![Layer2][id] = row.l2_block_number]
    /\ messageNonce' = [messageNonce EXCEPT ![id] = row.message_nonce]
    /\ messengerETHBalance' =
           [messengerETHBalance EXCEPT ![Layer1][id] = row.l1_messenger_eth_balance,
                                       ![Layer2][id] = row.l2_messenger_eth_balance]
    /\ ethBalanceStatus' =
           [ethBalanceStatus EXCEPT ![Layer1][id] = row.l1_eth_balance_status,
                                    ![Layer2][id] = row.l2_eth_balance_status]

\* the watchers deliver a bounded number of events while the loops run
Ingest ==
    /\ ingested < MaxIngested
    /\ ingested' = ingested + 1

\* InsertOrUpdateETHEventInfo for a messenger event of a layer: the event
\* columns of the record take the values of the incoming struct, whatever
\* they held and whatever the engine has done with the record
InsertOrUpdateETHEventInfo(layer, id, type, block) ==
    /\ Ingest
    /\ LET message == [ZeroMessage EXCEPT !.token_type = TokenTypeETH,
                                          ![EventTypeColumn(layer)] = type,
                                          ![BlockNumberColumn(layer)] = block]
       IN  WriteRow(id, OnConflict(Row(id), message, ETHEventInfoColumns(message)))
    /\ UNCHANGED <<ethAmount, ethAmountStatus, engine, watcher>>

\* InsertOrUpdateGatewayEventInfo for a gateway event of the layer
InsertOrUpdateGatewayEventInfo(layer, id, token) ==
    /\ Ingest
    /\ LET message == [ZeroMessage EXCEPT !.token_type = token,
                                          ![EventTypeColumn(layer)] = GatewayEvent(layer)]
       IN  WriteRow(id, OnConflict(Row(id), message, GatewayEventInfoColumns(layer)))
    /\ UNCHANGED <<ethAmount, ethAmountStatus, engine, watcher>>

\* InsertOrUpdateMsgProofNonce for one record
InsertOrUpdateMsgProofNonce(id, nonce) ==
    /\ Ingest
    /\ LET message == [ZeroMessage EXCEPT !.message_nonce = nonce]
       IN  WriteRow(id, OnConflict(Row(id), message, MsgProofNonceColumns))
    /\ UNCHANGED <<ethAmount, ethAmountStatus, engine, watcher>>

\* ingestion fills in the amount of a record (the Sent event of the other
\* layer arrived): its amount status becomes Set
SetETHAmount(id) ==
    /\ ethAmountStatus[id] = ETHAmountStatusTypeUnset
    /\ ethAmountStatus' = [ethAmountStatus EXCEPT ![id] = ETHAmountStatusTypeSet]
    /\ UNCHANGED <<tokenType, eventType, blockNumber, ethAmount, messageNonce, derived,
                   ingested, engine, watcher>>

\* the records ingestion delivers again
Upserted == 1..MaxUpserted

\* the ingestion calls of the watchers
Ingestion ==
    \/ \E layer \in Layers, id \in Upserted, block \in Blocks :
          \E type \in {SentMessage(layer), RelayedMessage(layer)} :
              InsertOrUpdateETHEventInfo(layer, id, type, block)
    \/ \E layer \in Layers, id \in Upserted, token \in TokenTypes :
          InsertOrUpdateGatewayEventInfo(layer, id, token)
    \/ \E id \in Upserted, nonce \in 0..MaxNonce : InsertOrUpdateMsgProofNonce(id, nonce)
    \/ \E id \in Ids : SetETHAmount(id)

\* ----------------------------------------------------------------- L2Watcher
\* The watcher's two uint64 counters, read and written with sync/atomic.  The
\* numbers are never computed with, so their width plays no part.
Numbers == 0..MaxNumber

NewL2Watcher == [startNumber |-> 0, safeNumber |-> 0]

\* a store that writes the number into both counters
StoreBoth(w, field, number) == [startNumber |-> number, safeNumber |-> number]

\* atomic.StoreUint64(&l2.field, number)
StoreUint64(w, field, number) == [w EXCEPT ![field] = number]

\* atomic.LoadUint64(&l2.field)
LoadUint64(w, field) == w[field]

StartNumber == LoadUint64(l2watcher, "startNumber")

SafeNumber == LoadUint64(l2watcher, "safeNumber")

IsReady == StartNumber = SafeNumber

\* IsReady evaluates l2.StartNumber() == l2.SafeNumber(): the left operand is
\* loaded first, the right one in a second atomic load, and the writer's
\* goroutine may store in between.  reader.start is the value of the first
\* load; reader.met records whether the two counters were equal at some
\* instant from the first load on; reader.result is what IsReady returned;
\* reader.lowered records that some store put a counter below its value.
NotReading ==
    [pc |-> "idle", start |-> 0, met |-> FALSE, result |-> FALSE, lowered |-> FALSE]

Equal(w) == LoadUint64(w, "startNumber") = LoadUint64(w, "safeNumber")

\* the reader's record after a store of the writer brought the watcher to w
Observed(w, field) ==
    [reader EXCEPT !.met = @ \/ (reader.pc = "loaded" /\ Equal(w)),
                   !.lowered = @ \/ LoadUint64(w, field) < LoadUint64(l2watcher, field)]

\* lastStored keeps, for each setter, the number it was last called with
setStartNumber(number) ==
    /\ l2watcher' = StoreUint64(l2watcher, "startNumber", number)
    /\ lastStored' = [lastStored EXCEPT !.startNumber = number]
    /\ reader' = Observed(l2watcher', "startNumber")
    /\ UNCHANGED <<store, ingested, engine>>

setSafeNumber(number) ==
    /\ l2watcher' = StoreUint64(l2watcher, "safeNumber", number)
    /\ lastStored' = [lastStored EXCEPT !.safeNumber = number]
    /\ reader' = Observed(l2watcher', "safeNumber")
    /\ UNCHANGED <<store, ingested, engine>>

\* IsReady is called and evaluates its left operand: l2.StartNumber()
IsReadyLoadStart ==
    /\ reader.pc # "loaded"
    /\ reader' = [reader EXCEPT !.pc = "loaded", !.start = StartNumber,
                                !.met = Equal(l2watcher), !.result = FALSE]
    /\ UNCHANGED <<store, ingested, engine, l2watcher, lastStored>>

\* IsReady evaluates its right operand, l2.SafeNumber(), compares and returns
IsReadyLoadSafe ==
    /\ reader.pc = "loaded"
    /\ reader' = [reader EXCEPT !.pc = "returned", !.result = (reader.start = SafeNumber)]
    /\ UNCHANGED <<store, ingested, engine, l2watcher, lastStored>>

\* ------------------------------------------------------------ initial store
\* the event facts of one record on one layer: none yet (type unset, block
\* number 0), or an event of either kind in some block
EventInfos(layer) ==
    {[type |-> EventTypeUnset, block |-> 0]}
    \cup [type : {SentMessage(layer), RelayedMessage(layer)}, block : Blocks]

\* the event of the same message on the other layer: a sent message is
\* relayed there and a relayed one was sent there, in the block of the same
\* number; a message with no event here yet was sent there
Counterpart(layer, info) ==
    LET other == OtherLayer(layer)
    IN  CASE info.type = SentMessage(layer) ->
                 [type |-> RelayedMessage(other), block |-> info.block]
          [] info.type = RelayedMessage(layer) ->
                 [type |-> SentMessage(other), block |-> info.block]
          [] OTHER -> [type |-> SentMessage(other), block |-> 1]

\* the state of the amount column: decodable and set, set to a string that
\* does not decode, or not set yet
AmountStates == {"set", "bad", "unset"}

NoNonce == [id \in Ids |-> 0]

\* the loops that run: the one of Layer1, the one of Layer2, or both
Both == "Both"

\* A store of ETH messages that are new to the engine (balance 0, status
\* Invalid) with the given event facts and amounts; no call of the engine is
\* under way, the watcher is new.
NewStore(loops, info, amt) ==
    /\ loop = loops
    /\ tokenType = [id \in Ids |-> TokenTypeETH]
    /\ eventType = [l \in Layers |-> [id \in Ids |-> info[l][id].type]]
    /\ blockNumber = [l \in Layers |-> [id \in Ids |-> info[l][id].block]]
    /\ ethAmount = [id \in Ids |-> IF amt[id] = "bad" THEN BadAmount ELSE GoodAmounts[id]]
    /\ ethAmountStatus = [id \in Ids |-> IF amt[id] = "unset" THEN ETHAmountStatusTypeUnset
                                         ELSE ETHAmountStatusTypeSet]
    /\ messengerETHBalance = [l \in Layers |-> [id \in Ids |-> 0]]
    /\ ethBalanceStatus = [l \in Layers |-> [id \in Ids |-> ETHBalanceStatusTypeInvalid]]
    /\ messageNonce = NoNonce
    /\ ingested = 0
    /\ call = [l \in Layers |-> NewCall]
    /\ tx = [l \in Layers |-> Idle]
    /\ bisect = [l \in Layers |-> NotBisecting]
    /\ l2watcher = NewL2Watcher
    /\ lastStored = NewL2Watcher
    /\ reader = NotReading

\* the least of two numbers
Min(a, b) == IF a <= b THEN a ELSE b

\* the event facts of both layers, from those of one layer
WithCounterpart(layer, info) ==
    [l \in Layers |-> [id \in Ids |->
        IF l = layer THEN info[id] ELSE Counterpart(layer, info[id])]]

\* the answers of the node a loop can meet: an error or a value
Latest == LatestBlocks \cup {Failed}

\* the calls of the layer's loop, each with what its collaborator answers
Engine(layer) ==
    \/ \E answer \in Latest : getLatestBlockNumber(layer, answer)
    \/ \E fails \in BOOLEAN : StartBalance(layer, fails)
    \/ \E answer \in Answers : BalanceAtGenesis(layer, answer)
    \/ \E fails \in BOOLEAN : FetchBatch(layer, fails)
    \/ \E fails \in BOOLEAN : FetchRange(layer, fails)
    \/ \E answer \in Answers : checkETH(layer, answer)
    \/ \E answer \in Answers : checkBlockBalanceOneByOne(layer, answer)
    \/ UpdateRow(layer)
    \/ FailRow(layer)
    \/ FailCommit(layer)
    \/ CommitTransaction(layer)

\* ------------------------------------------- one loop beside the watchers
\* One layer's loop is scheduled while the watchers still deliver events.
\* The records follow each other block by block from block 0 or from block 1
\* up to MaxBlock; the second may be a relayed message; the event of the
\* first record may not be in yet; in a store of sent messages from block 1
\* on the amount of the second may not be set yet.
Init ==
    \E layer \in Layers, first \in {0, 1}, relayed \in {0, 2}, arrived \in BOOLEAN,
       waits \in BOOLEAN :
        /\ ~arrived => first = 0
        /\ waits => arrived /\ first = 1 /\ relayed = 0
        /\ NewStore(layer,
               WithCounterpart(layer,
                   [id \in Ids |->
                       IF id = 1 /\ ~arrived THEN [type |-> EventTypeUnset, block |-> 0]
                       ELSE [type |-> IF id = relayed THEN RelayedMessage(layer)
                                      ELSE SentMessage(layer),
                             block |-> Min(first + id - 1, MaxBlock)]]),
               [id \in Ids |-> IF waits /\ id = 2 THEN "unset" ELSE "set"])

Next ==
    \/ \E layer \in Layers : Engine(layer)
    \/ Ingestion

Spec == Init /\ [][Next]_vars

\* ---------------------------------------------- one loop on a settled store
\* the records whose event or amount may be incomplete at the start: the
\* event of the first record may not be in yet, the amount of the first or
\* of the second may not be set yet (the first may be in block 0), the
\* amount of the last may not decode
Incomplete(info, amt) ==
    /\ \A id \in Ids : info[id].type = EventTypeUnset => id = 1
    /\ \A id \in Ids : info[id].block = 0 => id = 1
    /\ \A id \in Ids : amt[id] = "unset" => id \in {1, 2}
    /\ \A id \in Ids : amt[id] = "bad" => id = NumRecords
    /\ Cardinality({id \in Ids : amt[id] # "set" \/ info[id].type = EventTypeUnset}) <= 1

\* One layer's loop is scheduled; the events are in any blocks, in any order
\* of the ids; at most one record is incomplete; the first record alone may
\* be in block 0.
InitEngine ==
    \E layer \in Layers : \E info \in [Ids -> EventInfos(layer)], amt \in [Ids -> AmountStates] :
        /\ Incomplete(info, amt)
        /\ NewStore(layer, WithCounterpart(layer, info), amt)

\* the watchers deliver nothing but the amounts that are still missing
NextEngine ==
    \/ \E layer \in Layers : Engine(layer)
    \/ \E id \in Ids : SetETHAmount(id)

SpecEngine == InitEngine /\ [][NextEngine]_vars

\* ------------------------------------------------ a node that agrees
\* the node is far enough ahead for the stale-block bypass of Layer1
FarAhead == ethBalanceGap + MaxBlock + 1

\* the balance the node holds at the end block of the window when it agrees
\* with the records: the one they add up to from the start balance; a
\* balance is never below 0, so records that add up to less find the node
\* at 0.  checkETH asks for it only when the window is not stale.
AgreeingBalance(layer) ==
    LET expected == checkBalance(layer, call[layer].startBalance, 0,
                                 call[layer].messages).expectedEndBalance
    IN  IF expected >= 0 THEN expected ELSE 0

\* the calls of the layer's loop up to its transaction when every call is
\* answered and the balances of the node agree with the records wherever a
\* balance can
AgreeingEngine(layer, latest, seeds) ==
    \/ \E answer \in latest : getLatestBlockNumber(layer, answer)
    \/ StartBalance(layer, FALSE)
    \/ \E answer \in seeds : BalanceAtGenesis(layer, answer)
    \/ FetchBatch(layer, FALSE)
    \/ FetchRange(layer, FALSE)
    \/ checkETH(layer, AgreeingBalance(layer))
    \/ \E answer \in Balances : checkBlockBalanceOneByOne(layer, answer)

\* ------------------------------------------- the two loops side by side
\* Every message has its event on both layers; on Layer1 the second record
\* is in a later block than the others, on Layer2 all are in one block or
\* all but the first are in a later one;
\* every amount decodes; at most the second record still waits for its
\* amount.
InitConc ==
    \E sentOn \in [Ids -> Layers], waits \in BOOLEAN, later \in BOOLEAN :
        NewStore(Both,
            [l \in Layers |-> [id \in Ids |->
                [type |-> IF sentOn[id] = l THEN SentMessage(l) ELSE RelayedMessage(l),
                 block |-> IF \/ l = Layer1 /\ id = 2
                              \/ l = Layer2 /\ id > 1 /\ later
                           THEN MaxBlock ELSE 1]]],
            [id \in Ids |-> IF waits /\ id = 2 THEN "unset" ELSE "set"])

NextConc ==
    \/ \E layer \in Layers : AgreeingEngine(layer, {FarAhead}, {0, MaxBalance})
    \/ \E layer \in Layers : UpdateRow(layer)
    \/ \E layer \in Layers : FailRow(layer)
    \/ \E layer \in Layers : FailCommit(layer)
    \/ \E layer \in Layers : CommitTransaction(layer)
    \/ \E id \in Ids : SetETHAmount(id)

SpecConc == InitConc /\ [][NextConc]_vars

\* ------------------------------------------------------- repeated invocations
\* The loop of one layer on a store that ingestion has completed.  Every
\* record has its event of the layer in some block from 1 on, in any order
\* of the ids, and an amount that is set and decodes; no record is checked
\* yet.
InitProgress ==
    \E layer \in Layers, sentOn \in [Ids -> Layers], block \in [Ids -> 1..MaxBlock] :
        NewStore(layer,
            [l \in Layers |-> [id \in Ids |->
                [type |-> IF sentOn[id] = l THEN SentMessage(l) ELSE RelayedMessage(l),
                 block |-> block[id]]]],
            [id \in Ids |-> "set"])

\* every call is answered, the balances agree, every row update succeeds
NextProgress ==
    \/ \E layer \in Layers : AgreeingEngine(layer, LatestBlocks, Balances)
    \/ \E layer \in Layers : UpdateRow(layer)
    \/ \E layer \in Layers : CommitTransaction(layer)

\* the ticker fires again and again, and a call that was made returns
SpecProgress == InitProgress /\ [][NextProgress]_vars /\ WF_vars(NextProgress)

\* ----------------------------------------------------- the watcher alone
\* a new watcher beside a store that holds no event yet
InitWatcher ==
    NewStore(Layer2,
        [l \in Layers |-> [id \in Ids |-> [type |-> EventTypeUnset, block |-> 0]]],
        [id \in Ids |-> "unset"])

\* one writer at a time: each step is one whole setter call
NextWatcher ==
    \/ \E number \in Numbers : setStartNumber(number)
    \/ \E number \in Numbers : setSafeNumber(number)

SpecWatcher == InitWatcher /\ [][NextWatcher]_vars

\* the writer beside a reader that calls IsReady
NextReader ==
    \/ \E number \in Numbers : setStartNumber(number)
    \/ \E number \in Numbers : setSafeNumber(number)
    \/ IsReadyLoadStart
    \/ IsReadyLoadSafe

SpecReader == InitWatcher /\ [][NextReader]_vars

\* ================================================================ properties
\* the signed amount of a record of a window as the spec defines it: plus the
\* decoded amount for a Sent event of the layer, minus it for a Relayed one
SpecDelta(layer, message) ==
    LET amount == SetString(message.ETHAmount).val
    IN  CASE message.EventType = SentMessage(layer) -> amount
          [] message.EventType = RelayedMessage(layer) -> 0 - amount
          [] OTHER -> 0

\* the sum of the signed amounts of the records of a window that are in S
RECURSIVE NetDelta(_, _, _)
NetDelta(layer, messages, S) ==
    IF messages = <<>> THEN 0
    ELSE (IF Head(messages).ID \in S THEN SpecDelta(layer, Head(messages)) ELSE 0)
         + NetDelta(layer, Tail(messages), S)

\* the running balance the spec gives the block of a record of a window: the
\* start balance plus the net delta of every window record in that block or
\* in a lower one
SpecRunningBalance(layer, messages, startBalance, message) ==
    startBalance
    + NetDelta(layer, messages,
               {messages[i].ID : i \in {j \in 1..Len(messages) :
                                           messages[j].BlockNumber <= message.BlockNumber}})

\* the window of the layer's call, as a set of records
Window(layer) == {call[layer].messages[i] : i \in 1..Len(call[layer].messages)}

\* the stale-block condition as the spec words it
SpecStale(layer) ==
    layer = Layer1 /\ call[layer].endBlockNumber + 50 < call[layer].latestBlockNumber

\* every amount of the window decodes
Decodable(layer) == \A message \in Window(layer) : SetString(message.ETHAmount).ok

\* the whole-window aggregate check as the spec words it, against the
\* balance the Oracle gave for the end block
AggregatePasses(layer) ==
    call[layer].startBalance + NetDelta(layer, call[layer].messages, Ids)
        = call[layer].answered[call[layer].endBlockNumber]

\* the Oracle has given the balance at the end block of the window
EndBalanceAnswered(layer) ==
    /\ call[layer].answered[call[layer].endBlockNumber] # Failed
    /\ ~Returned(layer, {"EndBalanceFailed"})

\* ---------------------------------------------------------------------- C1
\* C1: after computeBlockBalance commits a window, every record of a block
\* holds the running balance of the preceding block of the window (the start
\* balance for the first block) plus the net signed delta of the window's
\* records in that block, whatever the block numbers are.
C1_PerBlockRunningBalance ==
    \A layer \in Layers :
        Returned(layer, CommitPaths) =>
            \A message \in Window(layer) :
                messengerETHBalance[layer][message.ID]
                    = SpecRunningBalance(layer, call[layer].messages,
                                         call[layer].startBalance, message)

\* ---------------------------------------------------------------------- C2
\* C2: the window CheckETHBalance passes to checkETH never holds a record of
\* a block while a record of the layer in a lower block is left out of the
\* window and is not Valid yet: no unresolved lower block is skipped over.
C2_NoUnresolvedBlockSkipped ==
    \A layer \in Layers :
        call[layer].pc = "checkETH" =>
            \A message \in Window(layer) :
                \A other \in Ids \ IdsOf(call[layer].messages) :
                    BlockOf(layer, other) < message.BlockNumber
                        => ethBalanceStatus[layer][other] = ETHBalanceStatusTypeValid

\* ---------------------------------------------------------------------- C3
\* C3: the row updates of a commit are issued in strictly ascending order of
\* record id, whatever the order of the window was.
C3_UpdatesAscendById ==
    \A layer \in Layers :
        /\ \A i, j \in 1..Len(call[layer].issued) :
               i < j => call[layer].issued[i] < call[layer].issued[j]
        /\ tx[layer].active =>
               call[layer].issued = SubSeq(UpdateIds(tx[layer].updates), 1, tx[layer].pos)

\* a commit of a window whose block order is not its id order has run
C3_Witness ==
    \E layer \in Layers :
        /\ Returned(layer, CommitPaths)
        /\ Len(call[layer].issued) >= 2
        /\ call[layer].issued # [i \in 1..Len(call[layer].messages) |->
                                     call[layer].messages[i].ID]

\* ---------------------------------------------------------------------- C4
\* C4: with the two loops running side by side, each committing its window in
\* one transaction that takes its row locks one row at a time in the order of
\* its updates and keeps them to its end, no interleaving reaches a deadlock:
\* the two transactions never each wait for a row lock the other one holds,
\* also when their windows hold the same records.
C4_NoDeadlock == ~(Waiting(Layer1) /\ Waiting(Layer2))

\* the two transactions are open on windows that share rows: one holds the
\* locks of rows it has updated, the other waits for one of them
C4_Witness ==
    \E layer \in Layers :
        /\ Waiting(layer)
        /\ Locked(layer) # {}
        /\ Locked(OtherLayer(layer)) # {}
        /\ Pending(OtherLayer(layer))
        /\ Len(tx[layer].updates) >= 2
        /\ Len(tx[OtherLayer(layer)].updates) >= 2

\* ---------------------------------------------------------------------- C5
\* the window of the invocation is entirely marked Valid with the running
\* balances the invocation derived for it
EntirelyValid(layer) ==
    LET c == computeBlockBalance(layer, call[layer].messages, call[layer].startBalance)
    IN  /\ ~c.err
        /\ \A k \in 1..Len(c.updates) :
               /\ ethBalanceStatus[layer][c.updates[k].id] = ETHBalanceStatusTypeValid
               /\ messengerETHBalance[layer][c.updates[k].id] = c.updates[k].balance

\* every record of the window that was Unchecked when the invocation fetched
\* it is still Unchecked with the balance it had
Untouched(layer) ==
    \A message \in Window(layer) :
        message.ETHBalanceStatus = ETHBalanceStatusTypeInvalid
            => /\ ethBalanceStatus[layer][message.ID] = ETHBalanceStatusTypeInvalid
               /\ messengerETHBalance[layer][message.ID] = message.MessengerETHBalance

\* a failed row update, or a failed commit, leaves none of the window's
\* updates in the store
RollbackLeavesUntouched ==
    \A layer \in Layers :
        Returned(layer, {"UpdateFailed", "CommitFailed"}) => Untouched(layer)

\* C5: when a row update fails during the commit of a window, none of the
\* window's updates is in the store; and after every invocation its window
\* is either entirely marked Valid with its running balances, or every record
\* of it that was Unchecked before is still Unchecked with its balance
\* unchanged.
C5_AllValidOrUntouched ==
    /\ RollbackLeavesUntouched
    /\ \A layer \in Layers :
           call[layer].pc = "idle" /\ call[layer].messages # <<>>
               => EntirelyValid(layer) \/ Untouched(layer)

\* ---------------------------------------------------------------------- C6
\* the call has gone through checkETH
PastCheckETH(layer) ==
    \/ call[layer].pc \in {"bisect", "transaction"}
    \/ Returned(layer, CommitPaths \cup {"UpdateFailed", "CommitFailed", "DeriveFailed", "Reported",
                                         "DecodeFailed", "EndBalanceFailed"})

\* C6: for Layer1, when the window's end block plus 50 is below the latest
\* block, checkETH asks the Oracle for no balance and goes to the delta
\* derivation; in every other case the Oracle is asked for the balance at the
\* end block, and no commit happens without that.
C6_StaleBypass ==
    \A layer \in Layers :
        PastCheckETH(layer) =>
            IF SpecStale(layer)
            THEN /\ call[layer].calls = <<>>
                 /\ \/ call[layer].pc = "transaction"
                    \/ Returned(layer, {"StaleCommitted", "UpdateFailed", "CommitFailed",
                                        "DeriveFailed"})
            ELSE /\ call[layer].calls # <<>>
                 /\ call[layer].endBlockNumber
                        \in {call[layer].calls[k] : k \in 1..Min(2, Len(call[layer].calls))}
                 /\ ~Returned(layer, {"StaleCommitted"})
                 /\ call[layer].issued # <<>> => EndBalanceAnswered(layer)

\* a Layer1 window was committed through the stale-block bypass
C6_Witness ==
    /\ Returned(Layer1, {"StaleCommitted"})
    /\ call[Layer1].issued # <<>>

\* ---------------------------------------------------------------------- C7
AllValid(layer) ==
    \A id \in Ids : ethBalanceStatus[layer][id] = ETHBalanceStatusTypeValid

\* the calls CheckETHBalance makes before it has a batch
BeforeBatch == {"idle", "start", "seed", "batch"}

\* C7: on a store whose records are all Valid for the layer, CheckETHBalance
\* changes no record and raises no alert, however the collaborators answer
\* and however often it is run: it returns when the batch comes back empty.
C7_Idempotent ==
    [][\A layer \in Layers :
          /\ AllValid(layer)
          /\ call[layer].pc \in BeforeBatch
          /\ call'[layer] # call[layer]
          => /\ UNCHANGED store
             /\ call'[layer].pc \in BeforeBatch
             /\ call'[layer].issued = <<>>
             /\ call'[layer].path # "Reported"
             /\ bisect'[layer] = NotBisecting
             /\ tx'[layer] = Idle
      ]_vars

\* CheckETHBalance has just run on a store whose records are all Valid
C7_Witness ==
    \E layer \in Layers : AllValid(layer) /\ Returned(layer, {"NoUnchecked"})

\* ---------------------------------------------------------------------- C8
\* C8: once a record is Valid for a layer, no later invocation writes its
\* balance or its status for that layer again.
C8_ValidNeverRewritten ==
    [][\A layer \in Layers, id \in Ids :
          ethBalanceStatus[layer][id] = ETHBalanceStatusTypeValid
              => /\ ethBalanceStatus'[layer][id] = ETHBalanceStatusTypeValid
                 /\ messengerETHBalance'[layer][id] = messengerETHBalance[layer][id]
                 /\ Len(call'[layer].issued) > Len(call[layer].issued)
                        => call'[layer].issued[Len(call'[layer].issued)] # id
      ]_vars

\* ---------------------------------------------------------------------- C9
\* C9: whenever a commit marks a record of a block Valid, every record of the
\* layer in a lower block is Valid already or is written by that commit.
C9_ValidInBlockOrder ==
    \A layer \in Layers :
        Returned(layer, CommitPaths) =>
            \A message \in Window(layer) :
                /\ message.ETHBalanceStatus # ETHBalanceStatusTypeValid
                /\ ethBalanceStatus[layer][message.ID] = ETHBalanceStatusTypeValid
                => \A other \in Ids :
                       BlockOf(layer, other) < message.BlockNumber
                           => \/ ethBalanceStatus[layer][other] = ETHBalanceStatusTypeValid
                              \/ other \in IdsOf(call[layer].messages)

\* --------------------------------------------------------------------- C10
\* C10: checkBalance finds the window valid exactly when the start balance
\* plus the sum of the signed deltas of its records equals the balance the
\* Oracle reports at the end block, and checkETH then commits the window with
\* every record of it marked Valid.
C10_BalanceCloses ==
    \A layer \in Layers :
        /\ PastCheckETH(layer)
        /\ Decodable(layer)
        /\ EndBalanceAnswered(layer)
        /\ ~IsStale(layer, call[layer].endBlockNumber, call[layer].latestBlockNumber)
        => /\ AggregatePasses(layer) <=>
                  \/ call[layer].pc = "transaction"
                  \/ Returned(layer, {"Committed", "UpdateFailed", "CommitFailed"})
           /\ Returned(layer, {"Committed"}) =>
                  \A message \in Window(layer) :
                      ethBalanceStatus[layer][message.ID] = ETHBalanceStatusTypeValid

\* --------------------------------------------------------------------- C11
\* the records of the bisector's window in blocks after the block of the
\* anchor record, up to and including the block of the boundary record
AfterAnchor(messages, startIndex, i) ==
    {messages[k].ID : k \in {j \in 1..Len(messages) :
        /\ messages[startIndex + 1].BlockNumber < messages[j].BlockNumber
        /\ messages[j].BlockNumber <= messages[i + 1].BlockNumber}}

\* C11: in the fallback bisector the expected balance computed for a boundary
\* is the anchor balance plus the signed deltas of the records in the blocks
\* after the anchor's block, up to and including the boundary block, only.
C11_ExpectedFromAnchor ==
    \A layer \in Layers :
        \A k \in 1..Len(bisect[layer].checks) :
            LET c == bisect[layer].checks[k]
            IN  c.expectedEndBalance
                    = c.startBalance
                      + NetDelta(layer, bisect[layer].messages,
                                 AfterAnchor(bisect[layer].messages, c.startIndex, c.i))

\* --------------------------------------------------------------------- C12
\* the decimal digits
Base10Digits == {"0", "1", "2", "3", "4", "5", "6", "7", "8", "9"}

\* the string is a base-10 integer: digits, at least one, after at most one sign
IsBase10(s) ==
    \E k \in 0..1 :
        /\ k < Len(s)
        /\ k = 1 => s[1] \in {"+", "-"}
        /\ \A i \in (k + 1)..Len(s) : s[i] \in Base10Digits

\* C12: if the amount of any record of the selected window does not decode as
\* a base-10 integer, the invocation commits nothing: no row update is issued
\* and no transaction is entered, whether the failure is met in the aggregate
\* check or in the per-block derivation of the stale-block bypass.
C12_DecodeFailureCommitsNothing ==
    \A layer \in Layers :
        (\E message \in Window(layer) : ~IsBase10(message.ETHAmount))
            => /\ call[layer].issued = <<>>
               /\ ~tx[layer].active
               /\ call[layer].pc \notin {"transaction", "bisect"}
               /\ ~Returned(layer, CommitPaths \cup {"UpdateFailed", "CommitFailed", "Reported"})
               /\ \A message \in Window(layer) :
                      /\ ethBalanceStatus[layer][message.ID] = message.ETHBalanceStatus
                      /\ messengerETHBalance[layer][message.ID] = message.MessengerETHBalance

\* an invocation has just met the amount that does not decode in the
\* derivation of the stale-block bypass
C12_Witness ==
    \E layer \in Layers :
        /\ Returned(layer, {"DeriveFailed"})
        /\ \E message \in Window(layer) : ~IsBase10(message.ETHAmount)

\* --------------------------------------------------------------------- C13
\* the step is one of the layer's call of CheckETHBalance
Steps(layer) == call'[layer] # call[layer]

\* C13: when a call of the Oracle (latest block number, genesis balance,
\* end-block balance) or a read of the Store (start balance, unchecked batch,
\* block-range fetch) fails, CheckETHBalance returns at once: the invocation
\* has changed no column of the store, has issued no row update and has
\* raised no alert, so that the next invocation selects from the same store.
C13_FailedCallChangesNothing ==
    [][\A layer \in Layers :
          /\ Steps(layer) /\ call'[layer].pc = "idle" /\ call'[layer].path \in FailedCalls
             => /\ UNCHANGED store
                /\ call'[layer].issued = <<>>
                /\ bisect'[layer] = NotBisecting
                /\ tx'[layer] = Idle
          /\ /\ Steps(layer)
             /\ call[layer].pc \in {"seed", "checkETH"}
             /\ Len(call'[layer].calls) > Len(call[layer].calls)
             /\ call'[layer].answered = call[layer].answered
             /\ call[layer].answered[call'[layer].calls[Len(call'[layer].calls)]] = Failed
             => call'[layer].pc = "idle" /\ call'[layer].path \in FailedCalls
      ]_vars

\* an invocation that had a window to check has just ended on the failed
\* call for the balance at the end block
C13_Witness ==
    \E layer \in Layers :
        /\ Returned(layer, {"EndBalanceFailed"})
        /\ call[layer].messages # <<>>
        /\ \E id \in Ids : ethBalanceStatus[layer][id] = ETHBalanceStatusTypeInvalid

\* --------------------------------------------------------------------- C14
\* C14: an invocation whose whole-window aggregate check fails goes to the
\* bisector and ends Reported with no commit: no row update is issued and
\* every Unchecked record of the window stays Unchecked; an invocation issues
\* row updates only after the aggregate check passed or under the
\* stale-block bypass.
C14_FailedCheckReportsOnly ==
    \A layer \in Layers :
        /\ /\ PastCheckETH(layer)
           /\ Decodable(layer)
           /\ EndBalanceAnswered(layer)
           /\ ~SpecStale(layer)
           /\ ~AggregatePasses(layer)
           => /\ call[layer].pc = "bisect" \/ Returned(layer, {"Reported"})
              /\ call[layer].issued = <<>>
              /\ ~tx[layer].active
              /\ \A message \in Window(layer) :
                     message.ETHBalanceStatus = ETHBalanceStatusTypeInvalid
                         => ethBalanceStatus[layer][message.ID] = ETHBalanceStatusTypeInvalid
        /\ bisect[layer].pc = "done" => Returned(layer, {"Reported"})
        /\ tx[layer].active \/ call[layer].issued # <<>>
               => /\ Decodable(layer)
                  /\ SpecStale(layer) \/ (EndBalanceAnswered(layer) /\ AggregatePasses(layer))

\* an invocation has just ended Reported and its window is still Unchecked
C14_Witness ==
    \E layer \in Layers :
        /\ Returned(layer, {"Reported"})
        /\ call[layer].messages # <<>>
        /\ \A message \in Window(layer) :
               ethBalanceStatus[layer][message.ID] = ETHBalanceStatusTypeInvalid

\* --------------------------------------------------------------------- C15
\* how far a call of CheckETHBalance has come: the calls it has made, the
\* iterations of the bisector's loops, the row updates of the transaction
Rank(pc) ==
    CASE pc = "idle" -> 0
      [] pc = "start" -> 1
      [] pc = "seed" -> 2
      [] pc = "batch" -> 3
      [] pc = "range" -> 4
      [] pc = "checkETH" -> 5
      [] OTHER -> 6

Advance(c, t, b) ==
    Rank(c.pc) * 4 * (NumRecords + 1)
    + (IF b.pc \in {"scan", "panic"} THEN NumRecords + 1 ELSE 0) + b.idx
    + (IF b.pc = "panic" THEN 1 ELSE 0)
    + t.pos

\* the layer's running balance or balance status of some record changes in
\* the step
Commits(layer) ==
    \/ messengerETHBalance'[layer] # messengerETHBalance[layer]
    \/ ethBalanceStatus'[layer] # ethBalanceStatus[layer]

\* C15 as stated: the window an invocation validates and commits holds at
\* most the batch limit of records.
C15_WindowWithinBatchLimit ==
    \A layer \in Layers :
        Returned(layer, CommitPaths) => Len(call[layer].messages) <= messageLimit

\* the records of the layer in the blocks of the span, as the store has them
InSpan(layer, start, end) ==
    {id \in Ids : start <= BlockOf(layer, id) /\ BlockOf(layer, id) <= end}

\* the lowest block of the span that holds a record whose amount is not set;
\* 0 when the span holds none
CutBlock(layer, start, end) ==
    LET unset == {id \in InSpan(layer, start, end) :
                     ethAmountStatus[id] # ETHAmountStatusTypeSet}
    IN  IF unset = {} THEN 0
        ELSE BlockOf(layer, CHOOSE id \in unset :
                                \A other \in unset : BlockOf(layer, id) <= BlockOf(layer, other))

\* the records the window is made of: those of the span in the blocks below
\* the cut block, all of them when there is no cut block or it is block 0
SpanWindow(layer, start, end) ==
    {id \in InSpan(layer, start, end) :
        CutBlock(layer, start, end) = 0 \/ BlockOf(layer, id) < CutBlock(layer, start, end)}

\* C15: every step of an invocation brings it nearer to its end, which is its
\* return or the crash of the bisector; the batch it fetches holds at most
\* the batch limit of records; the window it validates and commits is made
\* of exactly the records in the blocks from the batch's first record's
\* block to its last record's block, however many those are, without those
\* in or above the lowest block that holds an amount that is not set, unless
\* that block is block 0, when none is left out; an invocation that finds no
\* such record returns; only records of the window are written.
C15_WindowWithinBatchSpan ==
    [][\A layer \in Layers :
          /\ Len(call[layer].batch) <= messageLimit
          /\ call[layer].pc = "range" /\ call'[layer].pc = "checkETH"
                 => /\ IdsOf(call'[layer].messages)
                           = SpanWindow(layer, call[layer].startBlockNumber,
                                        call[layer].endBlockNumber)
                    /\ Len(call'[layer].messages)
                           = Cardinality(IdsOf(call'[layer].messages))
          /\ /\ call[layer].pc = "range" /\ call'[layer].pc = "idle"
             /\ call'[layer].path # "RangeFailed"
             => SpanWindow(layer, call[layer].startBlockNumber,
                           call[layer].endBlockNumber) = {}
          /\ \A k \in 1..Len(call[layer].issued) :
                 call[layer].issued[k] \in IdsOf(call[layer].messages)
          /\ Commits(layer) =>
                 \A id \in Ids \ IdsOf(call[layer].messages) :
                     /\ messengerETHBalance'[layer][id] = messengerETHBalance[layer][id]
                     /\ ethBalanceStatus'[layer][id] = ethBalanceStatus[layer][id]
          /\ /\ call[layer].pc # "idle"
             /\ \/ call'[layer] # call[layer]
                \/ tx'[layer] # tx[layer]
                \/ bisect'[layer] # bisect[layer]
             => \/ call'[layer].pc = "idle"
                \/ Advance(call'[layer], tx'[layer], bisect'[layer])
                       > Advance(call[layer], tx[layer], bisect[layer])
      ]_vars

\* a window of more records than the batch limit has just been committed
C15_Witness ==
    \E layer \in Layers :
        /\ Returned(layer, CommitPaths)
        /\ Len(call[layer].messages) > messageLimit
        /\ Len(call[layer].issued) > messageLimit

\* --------------------------------------------------------------------- C16
\* C16: with one writer at a time, StartNumber and SafeNumber return the
\* number last given to setStartNumber and to setSafeNumber (so neither
\* setter changes the other counter), and IsReady is true exactly when the
\* stored start number equals the stored safe number.
C16_WatcherReadsLastStored ==
    /\ StartNumber = lastStored.startNumber
    /\ SafeNumber = lastStored.safeNumber
    /\ IsReady <=> lastStored.startNumber = lastStored.safeNumber

\* both setters have been called, last with the same number, and the watcher
\* is ready
C16_Witness ==
    /\ lastStored.startNumber = MaxNumber
    /\ lastStored.safeNumber = MaxNumber
    /\ IsReady

\* --------------------------------------------------------------------- C17
\* the records of the layer that have been validated
Validated(layer) ==
    {id \in Ids : ethBalanceStatus[layer][id] = ETHBalanceStatusTypeValid}

\* the last of them
LastValidated(layer) ==
    CHOOSE id \in Validated(layer) : \A other \in Validated(layer) : other <= id

\* C17: the start balance of an invocation is the running balance of the
\* layer's last validated record when the store holds one; otherwise it is
\* the Oracle's balance at block 0 for Layer2, and for Layer1 the configured
\* startMessengerBalance, with no balance asked of the Oracle for it; the
\* invocation keeps that start balance to its end.
C17_StartBalance ==
    [][\A layer \in Layers :
          /\ call[layer].pc = "start" /\ call'[layer].pc = "batch"
             => /\ call'[layer].calls = <<>>
                /\ IF Validated(layer) # {}
                   THEN call'[layer].startBalance
                            = messengerETHBalance[layer][LastValidated(layer)]
                   ELSE layer = Layer1 /\ call'[layer].startBalance = startMessengerBalance
          /\ call[layer].pc = "start" /\ call'[layer].pc = "seed"
             => layer = Layer2 /\ Validated(layer) = {}
          /\ call[layer].pc = "seed" /\ call'[layer].pc = "batch"
             => /\ call'[layer].calls = <<0>>
                /\ call'[layer].startBalance = call'[layer].answered[0]
                /\ call'[layer].startBalance # Failed
          /\ call[layer].pc \notin {"idle", "start", "seed"}
             => call'[layer].startBalance = call[layer].startBalance
                \/ call'[layer].pc \in {"idle", "start"}
      ]_vars

\* an invocation of Layer1 has taken its start balance from a record
\* validated by an earlier invocation
C17_Witness ==
    /\ call[Layer1].pc = "batch"
    /\ Validated(Layer1) # {}
    /\ call[Layer1].startBalance = messengerETHBalance[Layer1][LastValidated(Layer1)]
    /\ call[Layer1].startBalance # startMessengerBalance

\* --------------------------------------------------------------------- C18
\* the sub-range checks of the layer's bisector that succeeded, by position
Succeeded(layer) ==
    {k \in 1..Len(bisect[layer].checks) : bisect[layer].checks[k].ok}

\* C18: in the fallback bisector, once the check of a sub-range [anchor,
\* boundary] has succeeded, the anchor index and the anchor balance are those
\* of that boundary, so that the next check covers only the records after it.
C18_AnchorAdvances ==
    \A layer \in Layers :
        Succeeded(layer) # {} =>
            LET k == CHOOSE x \in Succeeded(layer) : \A y \in Succeeded(layer) : y <= x
            IN  /\ bisect[layer].startIndex = bisect[layer].checks[k].i
                /\ bisect[layer].startBalance = bisect[layer].checks[k].actualBalance

\* --------------------------------------------------------------------- C19
\* C19: whatever balance queries fail during the fallback bisector, also when
\* the query fails for every record of the window, the bisector completes
\* normally: no check is run against a missing anchor balance and the
\* invocation does not crash.
C19_BisectorNeverCrashes == \A layer \in Layers : bisect[layer].pc # "panic"

\* --------------------------------------------------------------------- C20
\* messages[i] is the last record of its block in the bisector's window
LastOfBlock(layer, i) ==
    \A j \in (i + 1)..(Len(bisect[layer].messages) - 1) :
        bisect[layer].messages[j + 1].BlockNumber # bisect[layer].messages[i + 1].BlockNumber

\* the checks of the bisector that found a mismatch
Mismatches(layer) == SelectSeq(bisect[layer].checks, LAMBDA c : ~c.ok)

\* C20: in the fallback bisector every check is made at the last record of a
\* block of the window, after the anchor record, and no boundary is checked
\* twice; each mismatch sends one alert, for its boundary record, and the scan
\* goes on: every boundary after the anchor is asked for, and every one whose
\* balance query succeeds is checked.
C20_EachBoundaryCheckedOnce ==
    \A layer \in Layers :
        LET b == bisect[layer]
            checks == b.checks
            alerts == b.alerts
            mismatches == Mismatches(layer)
        IN  /\ \A k \in 1..Len(checks) :
                   /\ LastOfBlock(layer, checks[k].i)
                   /\ checks[k].i > checks[k].startIndex
                   /\ \A l \in 1..(k - 1) : checks[l].i < checks[k].i
            /\ Len(alerts) = Len(mismatches)
            /\ \A k \in 1..Len(alerts) :
                   /\ alerts[k].id = b.messages[mismatches[k].i + 1].ID
                   /\ alerts[k].expectedEndBalance = mismatches[k].expectedEndBalance
                   /\ alerts[k].actualBalance = mismatches[k].actualBalance
            /\ ~b.nil =>
                   \A n \in 1..Len(b.queried) :
                       b.queried[n].answer # Failed
                           => \E k \in 1..Len(checks) :
                                  /\ checks[k].i = b.queried[n].i
                                  /\ checks[k].actualBalance = b.queried[n].answer
            /\ b.pc = "done" =>
                   \A i \in (b.startIndex + 1)..(Len(b.messages) - 1) :
                       LastOfBlock(layer, i)
                           <=> \E n \in 1..Len(b.queried) : b.queried[n].i = i

\* the bisector has finished a scan in which a boundary was checked after a
\* mismatch at an earlier boundary
C20_Witness ==
    \E layer \in Layers :
        /\ bisect[layer].pc = "done"
        /\ \E k \in 1..Len(bisect[layer].checks) :
               /\ ~bisect[layer].checks[k].ok
               /\ k < Len(bisect[layer].checks)
        /\ bisect[layer].alerts # <<>>

\* --------------------------------------------------------------------- C21
\* C21: UpdateETHBalance for a layer writes the balance of the update into
\* the record's running-balance field and the status the update carries
\* (Valid) into its balance-status field, whatever the balance is: when the
\* transaction commits, every row it updated holds both.
C21_UpdateWritesBalanceAndStatus ==
    [][\A layer \in Layers :
          tx[layer].active /\ ~tx'[layer].active /\ call'[layer].path \in CommitPaths
              => \A k \in 1..Len(tx[layer].updates) :
                     LET mm == tx[layer].updates[k]
                     IN  /\ mm.status = ETHBalanceStatusTypeValid
                         /\ messengerETHBalance'[layer][mm.id] = mm.balance
                         /\ ethBalanceStatus'[layer][mm.id] = mm.status
      ]_vars

\* --------------------------------------------------------------------- C22
\* C22: a commit of one layer's reconciliation loop changes only that
\* layer's running balance and balance status, and only of the records of
\* its window: the other layer's two columns, the event facts and amounts,
\* and every record outside the window stay as they were, however the two
\* loops interleave.
C22_CommitFrame ==
    [][\A layer \in Layers :
          Commits(layer) =>
              /\ tx[layer].active /\ ~tx'[layer].active
              /\ ~Commits(OtherLayer(layer))
              /\ UNCHANGED <<tokenType, eventType, blockNumber, ethAmount, ethAmountStatus,
                             messageNonce>>
              /\ \A id \in Ids \ IdsOf(call[layer].messages) :
                     /\ messengerETHBalance'[layer][id] = messengerETHBalance[layer][id]
                     /\ ethBalanceStatus'[layer][id] = ethBalanceStatus[layer][id]
              /\ \A id \in Ids \ Locked(layer) :
                     /\ messengerETHBalance'[layer][id] = messengerETHBalance[layer][id]
                     /\ ethBalanceStatus'[layer][id] = ethBalanceStatus[layer][id]
      ]_vars

\* one layer has committed a window that left a record out, while the
\* transaction of the other layer is open and has updated a row
C22_Witness ==
    \E layer \in Layers :
        /\ tx[OtherLayer(layer)].active
        /\ tx[OtherLayer(layer)].pos > 0
        /\ Returned(layer, CommitPaths)
        /\ call[layer].issued # <<>>
        /\ Ids \ IdsOf(call[layer].messages) # {}

\* --------------------------------------------------------------------- C23
\* the step is an upsert of ingestion that writes something
Ingests ==
    \/ tokenType' # tokenType
    \/ eventType' # eventType
    \/ blockNumber' # blockNumber
    \/ messageNonce' # messageNonce

\* an upsert leaves the running balance and the balance status of both layers
\* of every record as they were
UpsertsKeepDerived == Ingests \/ ingested' # ingested => UNCHANGED derived

\* C23: InsertOrUpdateETHEventInfo, InsertOrUpdateGatewayEventInfo and
\* InsertOrUpdateMsgProofNonce on a record that exists change neither its
\* running balance nor its balance status on either layer, so that a record
\* marked Valid stays Valid with its balance however ingestion and
\* reconciliation interleave.
C23_UpsertsKeepValid ==
    [][/\ UpsertsKeepDerived
       /\ \A layer \in Layers, id \in Ids :
              ethBalanceStatus[layer][id] = ETHBalanceStatusTypeValid
                  => /\ ethBalanceStatus'[layer][id] = ETHBalanceStatusTypeValid
                     /\ messengerETHBalance'[layer][id] = messengerETHBalance[layer][id]
      ]_vars

\* --------------------------------------------------------------------- C24
\* the step marks a record of the layer Valid that was not Valid before
MarksValid(layer) ==
    \E id \in Ids :
        /\ ethBalanceStatus[layer][id] # ETHBalanceStatusTypeValid
        /\ ethBalanceStatus'[layer][id] = ETHBalanceStatusTypeValid

\* C24: when the invocation before found that the window's aggregate check
\* against the Oracle fails (it reported and committed nothing), the next
\* invocation marks a record Valid only on the path where the aggregate
\* check passes, whatever the chain head has become; in particular not
\* through the Layer1 stale-block bypass.
C24_ValidOnlyAfterPassingCheck ==
    [][\A layer \in Layers :
          call[layer].reported /\ MarksValid(layer)
              => EndBalanceAnswered(layer) /\ AggregatePasses(layer)
      ]_vars

\* --------------------------------------------------------------------- C25
\* C25: when every record of the layer has its event facts, the Oracle always
\* answers in agreement with the records and commits succeed, repeated
\* invocations of CheckETHBalance eventually mark every record of the layer
\* Valid, whatever blocks the ids are in and with a batch smaller than the
\* number of records.  Eventually reaching that goal requires that no
\* invocation finds unchecked records and returns with nothing to check.
C25_ProgressNeverBlocked ==
    \A layer \in Layers : ~Returned(layer, {"NothingToCheck"})

\* --------------------------------------------------------------------- C26
\* C26: with one writer that only advances the two counters, interleaved in
\* any way with a reader's call of IsReady, IsReady returns true only if the
\* start number and the safe number were equal at some instant between the
\* reader's first load and its second.
C26_ReadyOnlyIfEqualBetweenLoads ==
    reader.pc = "returned" /\ reader.result /\ ~reader.lowered => reader.met

====
